---- MODULE Spec2Model ----
(***************************************************************************)
(* Model of bboard-ui/src/contexts/BrowserDeployedBoardManager.ts:         *)
(* the deployment resolver (resolve / getProviders / deployDeployment /    *)
(* joinDeployment), provider construction (initializeProviders) and the    *)
(* wallet negotiation pipeline (connectToWallet).                          *)
(*                                                                         *)
(* Time is counted in milliseconds and advances in steps of one period of  *)
(* interval(100).                                                          *)
(***************************************************************************)
EXTENDS Integers, Sequences, FiniteSets, TLC

(* ------------------------------ bounds --------------------------------- *)
\* Largest number of tracked entries a run creates.
MaxEntries == 3
\* Largest number of subscriptions of the negotiation pipeline per
\* construction (the first one plus the re-subscriptions made by catchError).
MaxSubscriptions == 2

(* ------------------------- program constants --------------------------- *)
\* interval(100)
PollInterval == 100
\* timeout({ first: 1_000, ... })
DiscoveryTimeout == 1000
\* timeout({ first: 5_000, ... })
ResponseTimeout == 5000
ThrottleTime == 2000
SyncTimeout == 90000
\* COMPATIBLE_CONNECTOR_API_VERSION = '4.x': the major version required.
COMPATIBLE_CONNECTOR_API_VERSION == 4

(* ------------------------------ values --------------------------------- *)
\* resolve() called with no argument.
Undefined == "undefined"
\* resolve(''): a contract address that is the empty string.
EmptyAddress == ""
\* A contract that is on chain before the manager is constructed.
ForeignAddresses == {"c0"}
AddressNames == <<"c1", "c2", "c3", "c4", "c5", "c6">>
\* The address the chain gives to the k-th contract deployed by this manager.
FreshAddress(k) == AddressNames[k]
\* JS truthiness of the optional contractAddress (`if (contractAddress)`).
Truthy(contractAddress) == contractAddress \notin {Undefined, EmptyAddress}

NoVersion == [major |-> 0, minor |-> 0, pre |-> FALSE]
\* apiVersion strings a connector may advertise: 3.9.0, 4.0.0, 4.1.0-rc, 5.0.0.
Versions ==
  { [major |-> 3, minor |-> 9, pre |-> FALSE],
    [major |-> 4, minor |-> 0, pre |-> FALSE],
    [major |-> 4, minor |-> 1, pre |-> TRUE],
    [major |-> 5, minor |-> 0, pre |-> FALSE] }

\* semver.satisfies(version, '4.x'): major 4, any minor and patch, and no
\* prerelease tag.
Satisfies(v, range) == v.major = range /\ ~v.pre

\* Thrown values.  isError: `instanceof Error`; truthy: JS truthiness;
\* required/actual: the versions an error message quotes.
MkError(msg, required, actual) ==
  [isError |-> TRUE, truthy |-> TRUE, msg |-> msg,
   required |-> required, actual |-> actual]
NoError ==
  [isError |-> FALSE, truthy |-> FALSE, msg |-> "none",
   required |-> 0, actual |-> NoVersion]
IncompatibleError(v) ==
  MkError("Incompatible version of Midnight Lace wallet found",
          COMPATIBLE_CONNECTOR_API_VERSION, v)
NotFoundError ==
  MkError("Could not find Midnight Lace wallet. Extension installed?", 0, NoVersion)
NotRespondingError ==
  MkError("Midnight Lace wallet has failed to respond. Extension enabled?", 0, NoVersion)
NotAuthorizedError == MkError("Application is not authorized", 0, NoVersion)
\* What the wallet connector and the contract client may reject with: an
\* Error object, a non-Error string, or undefined.
ExternalError == MkError("external failure", 0, NoVersion)
ThrownString ==
  [isError |-> FALSE, truthy |-> TRUE, msg |-> "denied",
   required |-> 0, actual |-> NoVersion]
ThrownUndefined ==
  [isError |-> FALSE, truthy |-> FALSE, msg |-> "undefined",
   required |-> 0, actual |-> NoVersion]
Throwables == {ExternalError, ThrownString, ThrownUndefined}
\* What getConfiguration, getShieldedAddresses, BBoardAPI.deploy and
\* BBoardAPI.join reject with (`error: unknown`): an Error or a non-Error.
Rejections == {ExternalError, ThrownString}

\* A catch block that stores the caught value as it is (faulty variant of
\* CoerceError).
CoerceErrorNot(e) == e
\* error instanceof Error ? error : new Error(String(error))
CoerceError(e) == IF e.isError THEN e ELSE MkError(e.msg, 0, NoVersion)

(* ------------------------------ state ---------------------------------- *)
VARIABLES
  boardDeployments,     \* #boardDeploymentsSubject.value: the entries' values
  attempts,             \* the deployDeployment/joinDeployment call of each entry
  initializedProviders, \* #initializedProviders: NoPromise or a construction id
  constructions,        \* the initializeProviders calls (their promises), by id
  connector,            \* window.midnight?.mnLace: NoVersion or its apiVersion
  deployedCount,        \* number of contracts this manager has put on chain
  emissions,            \* the lists boardDeployments$ has emitted, of entry ids
  lastResolve           \* argument and result of the latest resolve call

\* inMemoryPrivateStateProvider (in-memory-private-state-provider.ts)
VARIABLES
  record,               \* const record = new Map<PSI, PS>()
  signingKeys,          \* const signingKeys = {} as Record<ContractAddress, SigningKey>
  history,              \* the operations called on the provider so far
  lastGet               \* the last get/getSigningKey call and the value it resolved to

\* generateDust (generate-dust.ts)
VARIABLES
  dustPc,               \* the await generateDust is suspended at, or how it ended
  walletSeed,           \* argument walletSeed
  availableCoins,       \* argument unshieldedState.availableCoins
  dustCalls,            \* calls made on walletFacade so far, by method
  dustOutcome,          \* the settlement of the promise generateDust returned
  recipe,               \* type of the recipe addDustGenerationSignature resolved to
  submitted,            \* txId: what submitTransaction resolved to
  balances              \* dust balances of the wallet states the final wait has seen

\* syncWallet and waitForUnshieldedFunds (wallet-utils.ts)
VARIABLES
  fundsPc,              \* the await waitForUnshieldedFunds is suspended at, or how it ended
  tokenType,            \* argument tokenType (its raw form)
  faucetArgs,           \* arguments fundFromFaucet and env.faucet
  initialState,         \* balances of the state getInitialUnshieldedState resolved to
  fundsOutcome,         \* the settlement of the promise waitForUnshieldedFunds returned
  syncPhase,            \* the pipeline of syncWallet: idle, subscribed, fulfilled, rejected
  syncClock,            \* time since syncWallet subscribed wallet.state()
  throttledUntil,       \* the end of the window in which throttleTime drops values
  syncedEmitted,        \* wallet.state() has emitted a fully synced state since then
  syncOutcome,          \* the settlement of the promise syncWallet returned
  bigIntToJSON          \* BigInt.prototype.toJSON is defined in the running process

managerVars == <<boardDeployments, attempts, initializedProviders, constructions,
                 connector, deployedCount, emissions, lastResolve>>
storeVars == <<record, signingKeys, history, lastGet>>
dustVars == <<dustPc, walletSeed, availableCoins, dustCalls, dustOutcome, recipe,
              submitted, balances>>
walletVars == <<fundsPc, tokenType, faucetArgs, initialState, fundsOutcome,
                syncPhase, syncClock, throttledUntil, syncedEmitted, syncOutcome,
                bigIntToJSON>>
vars == <<managerVars, storeVars, dustVars, walletVars>>

(* ------------------- inMemoryPrivateStateProvider ---------------------- *)
MaxOps == 3

Null == "null"
PrivateStateIds == {"id1", "id2"}
PrivateStates == {"ps1", "ps2"}
\* ContractAddress is a string: two addresses in hex and two strings that
\* are also names of properties of Object.prototype.
ContractAddresses == {"0200aa", "0200bb", "constructor", "__proto__"}
SigningKeys == {"sk1", "sk2"}

EmptyMap == [k \in {} |-> Null]

\* Map.prototype.get and the read of an own property: undefined when absent.
MapGet(m, k) == IF k \in DOMAIN m THEN m[k] ELSE Undefined
\* Map.prototype.set and the assignment to a property.
MapSet(m, k, v) == [x \in DOMAIN m \cup {k} |-> IF x = k THEN v ELSE m[x]]
\* A delete that empties the mapping (faulty variant of MapDelete).
MapDeleteAll(m, k) == [x \in {} |-> m[x]]
\* Map.prototype.delete and the delete operator.
MapDelete(m, k) == [x \in DOMAIN m \ {k} |-> m[x]]
\* What a plain object `{}` inherits from Object.prototype, by property
\* name: its eleven functions and the accessor __proto__.
ObjectPrototypeFunctions ==
  {"constructor", "toString", "toLocaleString", "valueOf", "hasOwnProperty",
   "isPrototypeOf", "propertyIsEnumerable", "__defineGetter__",
   "__defineSetter__", "__lookupGetter__", "__lookupSetter__"}
ObjectPrototype ==
  [k \in ObjectPrototypeFunctions \cup {"__proto__"} |->
     IF k = "__proto__" THEN "Object.prototype"
     ELSE IF k = "constructor" THEN "function Object"
     ELSE "function " \o k]
\* signingKeys[contractAddress]: the own property, else the inherited one,
\* else undefined.
PropertyGet(obj, k) ==
  IF k \in DOMAIN obj THEN obj[k]
  ELSE IF k \in DOMAIN ObjectPrototype THEN ObjectPrototype[k]
  ELSE Undefined
\* signingKeys[contractAddress] = signingKey: for '__proto__' the assignment
\* runs the setter of Object.prototype, which ignores a string and stores
\* nothing.
PropertySet(obj, k, v) ==
  IF k = "__proto__" THEN obj ELSE MapSet(obj, k, v)
\* a ?? b
NullishCoalesce(a, b) == IF a \in {Undefined, Null} THEN b ELSE a

\* Object.keys(signingKeys).forEach((contractAddress) => delete ...)
RECURSIVE DeleteEach(_, _)
DeleteEach(m, keys) ==
  IF keys = {} THEN m
  ELSE LET k == CHOOSE x \in keys : TRUE
       IN DeleteEach(MapDelete(m, k), keys \ {k})

StoreInit ==
  /\ record = EmptyMap
  /\ signingKeys = EmptyMap
  /\ history = <<>>
  /\ lastGet = [op |-> "none", key |-> Null, value |-> Null]

Called(op, key, value) ==
  /\ Len(history) < MaxOps
  /\ history' = Append(history, [op |-> op, key |-> key, value |-> value])

Set(key, state) ==
  /\ Called("set", key, state)
  /\ record' = MapSet(record, key, state)
  /\ UNCHANGED <<signingKeys, lastGet>>
  /\ UNCHANGED <<managerVars, dustVars, walletVars>>

Get(key) ==
  /\ lastGet' = [op |-> "get", key |-> key,
                 value |-> NullishCoalesce(MapGet(record, key), Null)]
  /\ UNCHANGED <<record, signingKeys, history>>
  /\ UNCHANGED <<managerVars, dustVars, walletVars>>

Remove(key) ==
  /\ Called("remove", key, Null)
  /\ record' = MapDelete(record, key)
  /\ UNCHANGED <<signingKeys, lastGet>>
  /\ UNCHANGED <<managerVars, dustVars, walletVars>>

Clear ==
  /\ Called("clear", Null, Null)
  /\ record' = EmptyMap
  /\ UNCHANGED <<signingKeys, lastGet>>
  /\ UNCHANGED <<managerVars, dustVars, walletVars>>

SetSigningKey(contractAddress, signingKey) ==
  /\ Called("setSigningKey", contractAddress, signingKey)
  /\ signingKeys' = PropertySet(signingKeys, contractAddress, signingKey)
  /\ UNCHANGED <<record, lastGet>>
  /\ UNCHANGED <<managerVars, dustVars, walletVars>>

GetSigningKey(contractAddress) ==
  /\ lastGet' = [op |-> "getSigningKey", key |-> contractAddress,
                 value |-> NullishCoalesce(PropertyGet(signingKeys, contractAddress),
                                           Null)]
  /\ UNCHANGED <<record, signingKeys, history>>
  /\ UNCHANGED <<managerVars, dustVars, walletVars>>

RemoveSigningKey(contractAddress) ==
  /\ Called("removeSigningKey", contractAddress, Null)
  /\ signingKeys' = MapDelete(signingKeys, contractAddress)
  /\ UNCHANGED <<record, lastGet>>
  /\ UNCHANGED <<managerVars, dustVars, walletVars>>

ClearSigningKeys ==
  /\ Called("clearSigningKeys", Null, Null)
  /\ signingKeys' = DeleteEach(signingKeys, DOMAIN signingKeys)
  /\ UNCHANGED <<record, lastGet>>
  /\ UNCHANGED <<managerVars, dustVars, walletVars>>

NextStore ==
  \/ \E key \in PrivateStateIds, state \in PrivateStates : Set(key, state)
  \/ \E key \in PrivateStateIds : Get(key)
  \/ \E key \in PrivateStateIds : Remove(key)
  \/ Clear
  \/ \E a \in ContractAddresses, k \in SigningKeys : SetSigningKey(a, k)
  \/ \E a \in ContractAddresses : GetSigningKey(a)
  \/ \E a \in ContractAddresses : RemoveSigningKey(a)
  \/ ClearSigningKeys

(* ---------------------------- generateDust ----------------------------- *)
MaxCoins == 2
MaxStates == 2

\* Wallet seeds by what HDWallet.fromSeed and deriveKeyAt(0) make of them.
Seeds ==
  {[fromSeed |-> "seedOk", derivation |-> "keyDerived"],
   [fromSeed |-> "seedOk", derivation |-> "keyOutOfBounds"],
   [fromSeed |-> "seedError", derivation |-> "none"]}
NoSeed == [fromSeed |-> "none", derivation |-> "none"]

\* unshieldedState.availableCoins, each coin by meta.registeredForDustGeneration.
CoinLists == UNION {[1..n -> BOOLEAN] : n \in 0..MaxCoins}

RecipeTypes == {"TransactionToProve", "BalanceTransactionToProve", "NothingToProve"}
TxIds == {"tx1", "tx2"}
DustBalances == {0, 7}

TypeError == MkError("TypeError", 0, NoVersion)
KeyOutOfBoundsError == MkError("Key derivation out of bounds", 0, NoVersion)
UnexpectedRecipeError ==
  MkError("Unexpected recipe type returned when registering Night UTXOs.", 0, NoVersion)
EmptyError == MkError("no elements in sequence", 0, NoVersion)
WalletError == MkError("wallet error", 0, NoVersion)

\* getUnshieldedSeed: the cast of hdWalletResult to the seedOk shape is not
\* checked, so for any other result hdWallet is undefined and
\* hdWallet.selectAccount(0) throws a TypeError.
GetUnshieldedSeed(seed) ==
  IF seed.fromSeed # "seedOk" THEN [threw |-> TRUE, error |-> TypeError]
  ELSE IF seed.derivation = "keyOutOfBounds"
       THEN [threw |-> TRUE, error |-> KeyOutOfBoundsError]
       ELSE [threw |-> FALSE, error |-> NoError]

\* availableCoins.filter((coin) => !coin.meta.registeredForDustGeneration)
Unregistered(c) == ~c
Utxos(coins) == SelectSeq(coins, Unregistered)

\* A recipe check that accepts every type (faulty variant of UnexpectedRecipe).
UnexpectedRecipeNever(type) == FALSE
\* recipe.type !== 'TransactionToProve'
UnexpectedRecipe(type) == type # "TransactionToProve"

\* A filter that also lets a zero balance through (faulty variant of
\* BalanceFilter).
BalanceFilterNonNegative(balance) == balance >= 0
\* rx.filter((s) => s.dust.walletBalance(new Date()) > 0n)
BalanceFilter(balance) == balance > 0

NoCalls ==
  [waitForSyncedState |-> 0, createDustGenerationTransaction |-> 0,
   addDustGenerationSignature |-> 0, finalizeTransaction |-> 0,
   submitTransaction |-> 0, state |-> 0]
Pending == [settled |-> "pending", value |-> Undefined, error |-> NoError]

DustInit ==
  /\ dustPc = "idle"
  /\ walletSeed = NoSeed
  /\ availableCoins = <<>>
  /\ dustCalls = NoCalls
  /\ dustOutcome = Pending
  /\ recipe = Undefined
  /\ submitted = Undefined
  /\ balances = <<>>

\* The async function calls method of walletFacade and suspends on its result.
Await(method) ==
  /\ dustPc' = method
  /\ dustCalls' = [dustCalls EXCEPT ![method] = @ + 1]
  /\ UNCHANGED dustOutcome

Return(value) ==
  /\ dustPc' = "fulfilled"
  /\ dustOutcome' = [settled |-> "fulfilled", value |-> value, error |-> NoError]
  /\ UNCHANGED dustCalls

Throw(error) ==
  /\ dustPc' = "rejected"
  /\ dustOutcome' = [settled |-> "rejected", value |-> Undefined, error |-> error]
  /\ UNCHANGED dustCalls

\* The call: runs up to `await walletFacade.dust.waitForSyncedState()`.
GenerateDust(seed, coins) ==
  /\ dustPc = "idle"
  /\ walletSeed' = seed
  /\ availableCoins' = coins
  /\ Await("waitForSyncedState")
  /\ UNCHANGED <<recipe, submitted, balances>>
  /\ UNCHANGED <<managerVars, storeVars, walletVars>>

\* Lines 54-73: the keystore is made from the seed, then the coins are
\* filtered, then the empty case returns.
SyncedStateResolves ==
  /\ dustPc = "waitForSyncedState"
  /\ LET key == GetUnshieldedSeed(walletSeed)
     IN IF key.threw THEN Throw(key.error)
        ELSE IF Len(Utxos(availableCoins)) = 0 THEN Return(Undefined)
        ELSE Await("createDustGenerationTransaction")
  /\ UNCHANGED <<walletSeed, availableCoins, recipe, submitted, balances>>
  /\ UNCHANGED <<managerVars, storeVars, walletVars>>

\* Lines 75-81: intents?.get(1) is undefined when the transaction has no
\* intent of segment 1, and intent!.signatureData then throws a TypeError.
DustTransactionResolves(hasIntent) ==
  /\ dustPc = "createDustGenerationTransaction"
  /\ IF hasIntent THEN Await("addDustGenerationSignature") ELSE Throw(TypeError)
  /\ UNCHANGED <<walletSeed, availableCoins, recipe, submitted, balances>>
  /\ UNCHANGED <<managerVars, storeVars, walletVars>>

\* Lines 83-87.
SignatureResolves(type) ==
  /\ dustPc = "addDustGenerationSignature"
  /\ recipe' = type
  /\ IF UnexpectedRecipe(type) THEN Throw(UnexpectedRecipeError)
     ELSE Await("finalizeTransaction")
  /\ UNCHANGED <<walletSeed, availableCoins, submitted, balances>>
  /\ UNCHANGED <<managerVars, storeVars, walletVars>>

\* Line 88.
FinalizeResolves ==
  /\ dustPc = "finalizeTransaction"
  /\ Await("submitTransaction")
  /\ UNCHANGED <<walletSeed, availableCoins, recipe, submitted, balances>>
  /\ UNCHANGED <<managerVars, storeVars, walletVars>>

\* Lines 88-95: txId is bound and walletFacade.state() is subscribed.
SubmitResolves(txId) ==
  /\ dustPc = "submitTransaction"
  /\ submitted' = txId
  /\ Await("state")
  /\ UNCHANGED <<walletSeed, availableCoins, recipe, balances>>
  /\ UNCHANGED <<managerVars, storeVars, walletVars>>

\* The state stream delivers a wallet state: firstValueFrom resolves on the
\* first one that passes the filter, and lines 96-99 run.
StateEmits(balance) ==
  /\ dustPc = "state"
  /\ Len(balances) < MaxStates
  /\ balances' = Append(balances, balance)
  /\ IF BalanceFilter(balance) THEN Return(submitted)
     ELSE UNCHANGED <<dustPc, dustCalls, dustOutcome>>
  /\ UNCHANGED <<walletSeed, availableCoins, recipe, submitted>>
  /\ UNCHANGED <<managerVars, storeVars, walletVars>>

\* The state stream completes: firstValueFrom rejects with an EmptyError.
StateCompletes ==
  /\ dustPc = "state"
  /\ Throw(EmptyError)
  /\ UNCHANGED <<walletSeed, availableCoins, recipe, submitted, balances>>
  /\ UNCHANGED <<managerVars, storeVars, walletVars>>

\* The promise (or stream) generateDust is suspended on fails.
WalletRejects ==
  /\ dustPc \in DOMAIN NoCalls
  /\ Throw(WalletError)
  /\ UNCHANGED <<walletSeed, availableCoins, recipe, submitted, balances>>
  /\ UNCHANGED <<managerVars, storeVars, walletVars>>

NextDust ==
  \/ \E seed \in Seeds, coins \in CoinLists : GenerateDust(seed, coins)
  \/ SyncedStateResolves
  \/ \E hasIntent \in BOOLEAN : DustTransactionResolves(hasIntent)
  \/ \E type \in RecipeTypes : SignatureResolves(type)
  \/ FinalizeResolves
  \/ \E txId \in TxIds : SubmitResolves(txId)
  \/ \E balance \in DustBalances : StateEmits(balance)
  \/ StateCompletes
  \/ WalletRejects

(* ------------------ syncWallet / waitForUnshieldedFunds ---------------- *)
\* Time passes in halves of the throttle window.
SyncGranule == ThrottleTime \div 2

TokenTypes == {"night", "other"}
\* tokenType.raw of a call: a token type the wallet may hold, or a string
\* that names a property of Object.prototype.
RequestedTokenTypes == TokenTypes \cup {"constructor"}
Amounts == {0, 5}
\* state.unshielded.balances: an amount for some of the token types.
Range(f) == {f[x] : x \in DOMAIN f}
BalanceMaps == UNION {[held -> Amounts] : held \in SUBSET TokenTypes}
\* A state of wallet.state(), by isStrictlyComplete() of its three parts and
\* by its unshielded balances.
\* state.shielded.balances: none, or an amount of one token type.
ShieldedBalanceMaps == {bs \in BalanceMaps : DOMAIN bs \subseteq {"night"} /\ 0 \notin Range(bs)}
\* A state of wallet.state(), by isStrictlyComplete() of its three parts, by
\* its unshielded balances and by its shielded balances.
FacadeStates ==
  [shielded : BOOLEAN, dust : BOOLEAN, unshielded : BOOLEAN, balances : BalanceMaps,
   shieldedBalances : ShieldedBalanceMaps]

\* JSON.stringify(balances) of lines 76-82: a record of bigint amounts is
\* serialized only where BigInt.prototype.toJSON is defined; otherwise
\* JSON.stringify throws a TypeError. An empty record is always serialized.
Stringifies(bs) == bs = EmptyMap \/ bigIntToJSON
BigIntError == MkError("Do not know how to serialize a BigInt", 0, NoVersion)

SyncTimeoutError == MkError("Wallet sync timeout after 90000ms", 0, NoVersion)

\* The predicate of Rx.filter in syncWallet.
IsSynced(state) == state.shielded /\ state.dust /\ state.unshielded

\* initialBalance = initialState.balances[tokenType.raw], a read of a plain
\* object (own entry, else what Object.prototype has under that name), then
\* initialBalance === undefined || initialBalance === 0n
NoInitialBalance(bs, token) ==
  IF token \in DOMAIN bs THEN bs[token] = 0
  ELSE PropertyGet(bs, token) = Undefined

NoOutcome == [settled |-> "pending", balances |-> EmptyMap, error |-> NoError]

WalletInit ==
  /\ fundsPc = "idle"
  /\ tokenType = "night"
  /\ faucetArgs = [fundFromFaucet |-> FALSE, faucet |-> FALSE]
  /\ initialState = EmptyMap
  /\ fundsOutcome = NoOutcome
  /\ syncPhase = "idle"
  /\ syncClock = 0
  /\ throttledUntil = 0
  /\ syncedEmitted = FALSE
  /\ syncOutcome = NoOutcome
  /\ bigIntToJSON = FALSE

\* syncWallet(logger, wallet): wallet.state() is subscribed through the
\* pipeline and the timer of timeout({ each: 90_000 }) is armed.
Subscribed ==
  /\ syncPhase' = "subscribed"
  /\ syncClock' = 0
  /\ throttledUntil' = 0
  /\ UNCHANGED <<syncedEmitted, syncOutcome>>

\* syncWallet called on its own, in a process with or without
\* BigInt.prototype.toJSON.
SyncWallet(toJSON) ==
  /\ fundsPc = "idle" /\ syncPhase = "idle"
  /\ bigIntToJSON' = toJSON
  /\ Subscribed
  /\ UNCHANGED <<fundsPc, tokenType, faucetArgs, initialState, fundsOutcome>>
  /\ UNCHANGED <<managerVars, storeVars, dustVars>>

\* The call: runs up to `await getInitialUnshieldedState(...)`.
WaitForUnshieldedFunds(token, fundFromFaucet, faucet, toJSON) ==
  /\ fundsPc = "idle" /\ syncPhase = "idle"
  /\ bigIntToJSON' = toJSON
  /\ fundsPc' = "getInitialUnshieldedState"
  /\ tokenType' = token
  /\ faucetArgs' = [fundFromFaucet |-> fundFromFaucet, faucet |-> faucet]
  /\ UNCHANGED <<initialState, fundsOutcome>>
  /\ UNCHANGED <<syncPhase, syncClock, throttledUntil, syncedEmitted, syncOutcome>>
  /\ UNCHANGED <<managerVars, storeVars, dustVars>>

\* Lines 106-113: the balance check, then return initialState or syncWallet.
CheckInitialBalance(bs) ==
  IF NoInitialBalance(bs, tokenType)
  THEN /\ fundsPc' = "syncWallet"
       /\ Subscribed
       /\ UNCHANGED fundsOutcome
  ELSE /\ fundsPc' = "fulfilled"
       /\ fundsOutcome' = [settled |-> "fulfilled", balances |-> bs, error |-> NoError]
       /\ UNCHANGED <<syncPhase, syncClock, throttledUntil, syncedEmitted, syncOutcome>>

\* firstValueFrom(wallet.state) resolves; lines 100-105 run.
InitialStateResolves(bs) ==
  /\ fundsPc = "getInitialUnshieldedState"
  /\ initialState' = bs
  /\ IF faucetArgs.fundFromFaucet /\ faucetArgs.faucet
     THEN /\ fundsPc' = "requestTokens"
          /\ UNCHANGED fundsOutcome
          /\ UNCHANGED <<syncPhase, syncClock, throttledUntil, syncedEmitted, syncOutcome>>
     ELSE CheckInitialBalance(bs)
  /\ UNCHANGED <<tokenType, faucetArgs, bigIntToJSON>>
  /\ UNCHANGED <<managerVars, storeVars, dustVars>>

\* FaucetClient.requestTokens resolves.
RequestTokensResolves ==
  /\ fundsPc = "requestTokens"
  /\ CheckInitialBalance(initialState)
  /\ UNCHANGED <<tokenType, faucetArgs, initialState, bigIntToJSON>>
  /\ UNCHANGED <<managerVars, storeVars, dustVars>>

\* The awaited promise of getInitialUnshieldedState or requestTokens rejects
\* with e: firstValueFrom(wallet.state) with an EmptyError when the stream
\* completes without a value, either with an error of the wallet or faucet.
FundsAwaitRejects(e) ==
  /\ fundsPc \in {"getInitialUnshieldedState", "requestTokens"}
  /\ e = EmptyError => fundsPc = "getInitialUnshieldedState"
  /\ fundsPc' = "rejected"
  /\ fundsOutcome' = [settled |-> "rejected", balances |-> EmptyMap, error |-> e]
  /\ UNCHANGED <<tokenType, faucetArgs, initialState, bigIntToJSON>>
  /\ UNCHANGED <<syncPhase, syncClock, throttledUntil, syncedEmitted, syncOutcome>>
  /\ UNCHANGED <<managerVars, storeVars, dustVars>>

\* The promise of syncWallet settles with outcome; the continuation of
\* waitForUnshieldedFunds, when it is the caller, returns facadeState.unshielded
\* or rethrows. The subscription, with its timers, is disposed.
SyncSettles(outcome) ==
  /\ syncPhase' = outcome.settled
  /\ syncOutcome' = outcome
  /\ syncClock' = 0
  /\ throttledUntil' = 0
  /\ IF fundsPc = "syncWallet"
     THEN /\ fundsPc' = outcome.settled
          /\ fundsOutcome' = outcome
     ELSE UNCHANGED <<fundsPc, fundsOutcome>>

\* wallet.state() emits state before the timeout: throttleTime(2000) lets it
\* through when no window is open and opens one; the filter lets a synced
\* state through; the tap of lines 75-83 stringifies its shielded and
\* unshielded balances, and throws where that fails; otherwise firstValueFrom
\* resolves with the state.
WalletStateEmits(state) ==
  /\ syncPhase = "subscribed"
  /\ syncClock < SyncTimeout
  /\ syncedEmitted' = (syncedEmitted \/ (state.shielded /\ state.dust /\ state.unshielded))
  /\ IF syncClock < throttledUntil
     THEN UNCHANGED <<syncClock, throttledUntil, syncPhase, syncOutcome, fundsPc,
                      fundsOutcome>>
     ELSE IF IsSynced(state)
          THEN IF Stringifies(state.shieldedBalances) /\ Stringifies(state.balances)
               THEN SyncSettles([settled |-> "fulfilled",
                                 balances |-> state.balances, error |-> NoError])
               ELSE SyncSettles([settled |-> "rejected", balances |-> EmptyMap,
                                 error |-> BigIntError])
          ELSE /\ throttledUntil' = syncClock + ThrottleTime
               /\ UNCHANGED <<syncClock, syncPhase, syncOutcome, fundsPc, fundsOutcome>>
  /\ UNCHANGED <<tokenType, faucetArgs, initialState, bigIntToJSON>>
  /\ UNCHANGED <<managerVars, storeVars, dustVars>>

\* The timer of timeout({ each: 90_000 }) fires: no value has come out of
\* the filter since the subscription.
SyncTimedOut ==
  /\ syncPhase = "subscribed"
  /\ syncClock = SyncTimeout
  /\ SyncSettles([settled |-> "rejected", balances |-> EmptyMap,
                  error |-> SyncTimeoutError])
  /\ UNCHANGED syncedEmitted
  /\ UNCHANGED <<tokenType, faucetArgs, initialState, bigIntToJSON>>
  /\ UNCHANGED <<managerVars, storeVars, dustVars>>

\* wallet.state() completes (EmptyError) or fails.
WalletStateEnds(e) ==
  /\ syncPhase = "subscribed"
  /\ SyncSettles([settled |-> "rejected", balances |-> EmptyMap, error |-> e])
  /\ UNCHANGED syncedEmitted
  /\ UNCHANGED <<tokenType, faucetArgs, initialState, bigIntToJSON>>
  /\ UNCHANGED <<managerVars, storeVars, dustVars>>

\* Time passes; the timer of throttleTime closes the window when it is due.
SyncTick ==
  /\ syncPhase = "subscribed"
  /\ syncClock < SyncTimeout
  /\ syncClock' = syncClock + SyncGranule
  /\ throttledUntil' = IF syncClock' >= throttledUntil THEN 0 ELSE throttledUntil
  /\ UNCHANGED <<fundsPc, tokenType, faucetArgs, initialState, fundsOutcome,
                 syncPhase, syncedEmitted, syncOutcome, bigIntToJSON>>
  /\ UNCHANGED <<managerVars, storeVars, dustVars>>

NextWallet ==
  \/ \E toJSON \in BOOLEAN : SyncWallet(toJSON)
  \/ \E token \in RequestedTokenTypes, fundFromFaucet \in BOOLEAN, faucet \in BOOLEAN,
        toJSON \in BOOLEAN :
        WaitForUnshieldedFunds(token, fundFromFaucet, faucet, toJSON)
  \/ \E bs \in BalanceMaps : InitialStateResolves(bs)
  \/ RequestTokensResolves
  \/ \E e \in {EmptyError, WalletError} : FundsAwaitRejects(e)
  \/ \E state \in FacadeStates : WalletStateEmits(state)
  \/ SyncTimedOut
  \/ \E e \in {EmptyError, WalletError} : WalletStateEnds(e)
  \/ SyncTick

(* ----------------------- BrowserDeployedBoardManager -------------------- *)
\* The three shapes of BoardDeployment.
InProgress == [status |-> "in-progress", address |-> Undefined, error |-> NoError]
Deployed(a) == [status |-> "deployed", address |-> a, error |-> NoError]
Failed(e) == [status |-> "failed", address |-> Undefined, error |-> e]
Terminal(d) == d.status \in {"deployed", "failed"}

NoPromise == 0

\* initializeProviders just called: connectToWallet has subscribed the
\* pipeline, so interval(100) and both timeout timers are armed. elapsed is
\* the time since the pipeline was subscribed, age the time since
\* connectToWallet was called; age is followed up to one period past the
\* connect/status timeout and is dropped with the timers at settlement.
NewConstruction ==
  [phase |-> "polling", elapsed |-> 0, age |-> 0, nextPoll |-> PollInterval,
   subscriptions |-> 1, connectCalls |-> 0, found |-> NoVersion,
   raised |-> NoError, failedIn |-> "none", walletError |-> NoError,
   error |-> NoError]

Settled(c) == c.phase \in {"fulfilled", "rejected"}
Negotiating(c) == c.phase \in {"polling", "connecting", "status"}

\* Addresses of contracts that exist on chain.
OnChain == ForeignAddresses \cup {FreshAddress(k) : k \in 1..deployedCount}

Init ==
  /\ boardDeployments = <<>>
  /\ attempts = <<>>
  /\ initializedProviders = NoPromise
  /\ constructions = <<>>
  /\ connector = NoVersion
  /\ deployedCount = 0
  /\ emissions = << <<>> >>
  /\ lastResolve = [arg |-> Undefined, result |-> 0, created |-> FALSE,
                    atEmission |-> InProgress]
  /\ StoreInit
  /\ DustInit
  /\ WalletInit

(* ---------------------------- resolve ---------------------------------- *)
\* A find predicate that also accepts any deployed entry when no address is
\* given (faulty variant of Matches).
MatchesLoose(d, contractAddress) ==
  d.status = "deployed" /\ (d.address = contractAddress \/ ~Truthy(contractAddress))
\* The predicate of deployments.find(...) in resolve.
Matches(d, contractAddress) ==
  d.status = "deployed" /\ d.address = contractAddress

\* Array.prototype.find: index of the first match, 0 for undefined.
Find(deployments, contractAddress) ==
  LET hitsAt == {i \in DOMAIN deployments : Matches(deployments[i], contractAddress)}
  IN IF hitsAt = {} THEN 0 ELSE CHOOSE i \in hitsAt : \A j \in hitsAt : i <= j

\* A getProviders without the cache (faulty variant of GetProvidersStarts).
GetProvidersStartsAlways(cached) == TRUE
\* A getProviders that drops a rejected promise from the cache and constructs
\* again (faulty variant of GetProvidersStarts).
GetProvidersRetries(cached) ==
  cached = NoPromise \/ constructions[cached].phase = "rejected"
\* getProviders: `#initializedProviders ?? (... = initializeProviders(logger))`
\* calls initializeProviders only while the cache holds undefined.
GetProvidersStarts(cached) == cached = NoPromise

\* The value of #boardDeploymentsSubject: the last list it was given.
Tracked == emissions[Len(emissions)]

\* A next list with the new entry put first (faulty variant of NextList).
NextListPrepended(deployments, deployment) == <<deployment>> \o deployments
\* A next list with the new entry put in the place of the last one (faulty
\* variant of NextList).
NextListOverwriting(deployments, deployment) ==
  IF deployments = <<>> THEN <<deployment>>
  ELSE [deployments EXCEPT ![Len(deployments)] = deployment]
\* [...deployments, deployment]
NextList(deployments, deployment) == Append(deployments, deployment)

\* An attempt whose synchronous part reads a settled cached construction and
\* fails its entry at once (faulty variant of SynchronousPart).
SynchronousPartEager(promise) ==
  IF promise \in DOMAIN constructions /\ constructions[promise].phase = "rejected"
  THEN Failed(CoerceError(constructions[promise].error))
  ELSE InProgress
\* The value of the new entry when `void this.deployDeployment(...)` or
\* `void this.joinDeployment(...)` has returned to resolve: the async function
\* ran up to its first await (providers = await this.getProviders()), which
\* yields also for a settled promise, so that no deployment.next has run.
SynchronousPart(promise) == InProgress

NewAttempt(kind, contractAddress, promise) ==
  [kind |-> kind, contractAddress |-> contractAddress, pc |-> "awaitProviders",
   promise |-> promise, sawPending |-> TRUE, observed |-> "none",
   observedError |-> NoError, caught |-> NoError, nexts |-> 0]

Resolve(contractAddress) ==
  LET deployments == boardDeployments
      deployment == Find(deployments, contractAddress)
      starts == GetProvidersStarts(initializedProviders)
      promise == IF starts THEN Len(constructions) + 1 ELSE initializedProviders
      kind == IF Truthy(contractAddress) THEN "join" ELSE "deploy"
  IN IF deployment # 0
     THEN /\ lastResolve' = [arg |-> contractAddress, result |-> deployment,
                             created |-> FALSE,
                             atEmission |-> lastResolve.atEmission]
          /\ UNCHANGED <<boardDeployments, attempts, initializedProviders,
                         constructions, connector, deployedCount, emissions>>
          /\ UNCHANGED <<storeVars, dustVars, walletVars>>
     ELSE /\ Len(deployments) < MaxEntries
          /\ constructions' = IF starts THEN Append(constructions, NewConstruction)
                                        ELSE constructions
          /\ initializedProviders' = promise
          /\ attempts' = Append(attempts,
               [NewAttempt(kind, IF kind = "join" THEN contractAddress ELSE Undefined,
                           promise)
                  EXCEPT !.sawPending = starts \/ ~Settled(constructions[promise])])
          /\ boardDeployments' = Append(deployments, SynchronousPart(promise))
          /\ emissions' = Append(emissions,
                                 NextList(Tracked, Len(deployments) + 1))
          /\ lastResolve' = [arg |-> contractAddress,
                             result |-> Len(deployments) + 1, created |-> TRUE,
                             atEmission |-> SynchronousPart(promise)]
          /\ UNCHANGED <<connector, deployedCount>>
          /\ UNCHANGED <<storeVars, dustVars, walletVars>>

(* ------------------------- connectToWallet ----------------------------- *)
\* The selector of catchError((error, apis) => error ? throwError(...) : apis)
\* applied to the error that reached it: a truthy error rejects the promise of
\* firstValueFrom with 'Application is not authorized'; a falsy one returns
\* `apis`, which subscribes the whole pipeline again (new interval, new timers).
CatchError(c, error) ==
  IF error.truthy
  THEN [c EXCEPT !.phase = "rejected", !.raised = error, !.failedIn = c.phase,
                 !.walletError = NotAuthorizedError,
                 !.error = NotAuthorizedError,
                 !.elapsed = 0, !.age = 0, !.nextPoll = 0]
  ELSE [c EXCEPT !.phase = "polling", !.raised = error, !.failedIn = c.phase,
                 !.elapsed = 0,
                 !.nextPoll = PollInterval, !.found = NoVersion,
                 !.subscriptions = @ + 1]

\* One emission of interval(100) through map, filter, the version check of
\* concatMap, take(1), timeout(1000) and the async concatMap that calls
\* initialAPI.connect(networkId).
PollStep(c) ==
  IF connector = NoVersion
  THEN [c EXCEPT !.nextPoll = @ + PollInterval]
  ELSE IF Satisfies(connector, COMPATIBLE_CONNECTOR_API_VERSION)
       THEN [c EXCEPT !.phase = "connecting", !.found = connector,
                      !.connectCalls = @ + 1, !.nextPoll = 0]
       ELSE CatchError([c EXCEPT !.found = connector], IncompatibleError(connector))

Poll(p) ==
  /\ p \in DOMAIN constructions
  /\ constructions[p].phase = "polling"
  /\ constructions[p].elapsed = constructions[p].nextPoll
  /\ constructions' = [constructions EXCEPT ![p] = PollStep(@)]
  /\ UNCHANGED <<emissions, storeVars, dustVars, walletVars>>
  /\ UNCHANGED <<boardDeployments, attempts, initializedProviders, connector,
                 deployedCount, lastResolve>>

\* The timer of timeout({ first: 1_000 }) fires before take(1) emitted.
DiscoveryTimedOut(p) ==
  /\ p \in DOMAIN constructions
  /\ constructions[p].phase = "polling"
  /\ constructions[p].elapsed = DiscoveryTimeout
  /\ constructions' = [constructions EXCEPT ![p] = CatchError(@, NotFoundError)]
  /\ UNCHANGED <<emissions, storeVars, dustVars, walletVars>>
  /\ UNCHANGED <<boardDeployments, attempts, initializedProviders, connector,
                 deployedCount, lastResolve>>

\* The timer of timeout({ first: 5_000 }) fires before the async concatMap
\* emitted the connected API.
ResponseTimedOut(p) ==
  /\ p \in DOMAIN constructions
  /\ constructions[p].phase \in {"connecting", "status"}
  /\ constructions[p].elapsed = ResponseTimeout
  /\ constructions' = [constructions EXCEPT ![p] = CatchError(@, NotRespondingError)]
  /\ UNCHANGED <<emissions, storeVars, dustVars, walletVars>>
  /\ UNCHANGED <<boardDeployments, attempts, initializedProviders, connector,
                 deployedCount, lastResolve>>

\* initialAPI.connect(networkId) resolves: getConnectionStatus() is called.
ConnectResolves(p) ==
  /\ p \in DOMAIN constructions
  /\ constructions[p].phase = "connecting"
  /\ constructions' = [constructions EXCEPT ![p].phase = "status"]
  /\ UNCHANGED <<emissions, storeVars, dustVars, walletVars>>
  /\ UNCHANGED <<boardDeployments, attempts, initializedProviders, connector,
                 deployedCount, lastResolve>>

\* initialAPI.connect(networkId) or getConnectionStatus() rejects with e.
HandshakeRejects(p, e) ==
  /\ p \in DOMAIN constructions
  /\ constructions[p].phase \in {"connecting", "status"}
  /\ e.truthy \/ constructions[p].subscriptions < MaxSubscriptions
  /\ constructions' = [constructions EXCEPT ![p] = CatchError(@, e)]
  /\ UNCHANGED <<emissions, storeVars, dustVars, walletVars>>
  /\ UNCHANGED <<boardDeployments, attempts, initializedProviders, connector,
                 deployedCount, lastResolve>>

\* getConnectionStatus() resolves: the pipeline emits connectedAPI,
\* firstValueFrom resolves, and initializeProviders goes on to call
\* connectedAPI.getConfiguration().
StatusResolves(p) ==
  /\ p \in DOMAIN constructions
  /\ constructions[p].phase = "status"
  /\ constructions' = [constructions EXCEPT ![p].phase = "configuration",
                                            ![p].elapsed = 0, ![p].age = 0,
                                            ![p].nextPoll = 0]
  /\ UNCHANGED <<emissions, storeVars, dustVars, walletVars>>
  /\ UNCHANGED <<boardDeployments, attempts, initializedProviders, connector,
                 deployedCount, lastResolve>>

\* The age one period later, no longer followed once it is past the
\* connect/status timeout.
Later(age) ==
  IF age > ResponseTimeout THEN age ELSE age + PollInterval

\* Whether the timers of construction c allow time to pass.
MayWait(c) ==
  CASE c.phase = "polling" -> c.elapsed < c.nextPoll /\ c.elapsed < DiscoveryTimeout
    [] c.phase \in {"connecting", "status"} -> c.elapsed < ResponseTimeout
    [] OTHER -> TRUE

\* Time passes: one period of interval(100) for every armed timer.
Tick ==
  /\ \E p \in DOMAIN constructions : Negotiating(constructions[p])
  /\ \A p \in DOMAIN constructions : MayWait(constructions[p])
  /\ constructions' =
       [p \in DOMAIN constructions |->
          IF Negotiating(constructions[p])
          THEN [constructions[p] EXCEPT !.elapsed = @ + PollInterval,
                                        !.age = Later(@)]
          ELSE constructions[p]]
  /\ UNCHANGED <<emissions, storeVars, dustVars, walletVars>>
  /\ UNCHANGED <<boardDeployments, attempts, initializedProviders, connector,
                 deployedCount, lastResolve>>

\* The wallet extension injects window.midnight.mnLace.
Inject(v) ==
  /\ connector = NoVersion
  /\ connector' = v
  /\ UNCHANGED <<emissions, storeVars, dustVars, walletVars>>
  /\ UNCHANGED <<boardDeployments, attempts, initializedProviders, constructions,
                 deployedCount, lastResolve>>

(* ------------------------ initializeProviders -------------------------- *)
\* connectedAPI.getConfiguration() resolves: getShieldedAddresses() is called.
ConfigurationResolves(p) ==
  /\ p \in DOMAIN constructions
  /\ constructions[p].phase = "configuration"
  /\ constructions' = [constructions EXCEPT ![p].phase = "addresses"]
  /\ UNCHANGED <<emissions, storeVars, dustVars, walletVars>>
  /\ UNCHANGED <<boardDeployments, attempts, initializedProviders, connector,
                 deployedCount, lastResolve>>

\* connectedAPI.getShieldedAddresses() resolves: the bundle is returned.
AddressesResolve(p) ==
  /\ p \in DOMAIN constructions
  /\ constructions[p].phase = "addresses"
  /\ constructions' = [constructions EXCEPT ![p].phase = "fulfilled"]
  /\ UNCHANGED <<emissions, storeVars, dustVars, walletVars>>
  /\ UNCHANGED <<boardDeployments, attempts, initializedProviders, connector,
                 deployedCount, lastResolve>>

\* getConfiguration() or getShieldedAddresses() rejects with e: the async
\* function initializeProviders rejects with e.
AssemblyRejects(p, e) ==
  /\ p \in DOMAIN constructions
  /\ constructions[p].phase \in {"configuration", "addresses"}
  /\ constructions' = [constructions EXCEPT ![p].phase = "rejected", ![p].error = e]
  /\ UNCHANGED <<emissions, storeVars, dustVars, walletVars>>
  /\ UNCHANGED <<boardDeployments, attempts, initializedProviders, connector,
                 deployedCount, lastResolve>>

(* ---------------- deployDeployment / joinDeployment -------------------- *)
\* The address of the handle BBoardAPI.deploy resolves with: a new contract.
DeployedContractAddress == FreshAddress(deployedCount + 1)
\* The address of the handle BBoardAPI.join resolves with: the one joined.
JoinedContractAddress(contractAddress) == contractAddress

\* The values passed to deployment.next when the try block runs to its end,
\* and when the catch block runs.
TryNexts(address) == <<Deployed(address)>>
CatchNexts(error) == <<Failed(CoerceError(error))>>

\* deployment.next(v) for each v of values, then the async function returns;
\* caught is the value the catch block received (NoError in the try block).
Finish(i, values, caught) ==
  /\ boardDeployments' = [boardDeployments EXCEPT ![i] = values[Len(values)]]
  /\ attempts' = [attempts EXCEPT ![i].pc = "done", ![i].caught = caught,
                                  ![i].nexts = @ + Len(values)]

\* The continuation of `await this.getProviders()` in the attempt of entry i.
ProvidersSettled(i) ==
  /\ i \in DOMAIN attempts
  /\ attempts[i].pc = "awaitProviders"
  /\ Settled(constructions[attempts[i].promise])
  /\ LET c == constructions[attempts[i].promise]
     IN IF c.phase = "fulfilled"
        THEN \* BBoardAPI.deploy(providers) / BBoardAPI.join(providers, address)
             /\ attempts' = [attempts EXCEPT ![i].pc = "awaitContract",
                                             ![i].observed = "fulfilled"]
             /\ UNCHANGED boardDeployments
        ELSE /\ boardDeployments' =
                  [boardDeployments EXCEPT ![i] = CatchNexts(c.error)[1]]
             /\ attempts' = [attempts EXCEPT ![i].pc = "done",
                                             ![i].observed = "rejected",
                                             ![i].observedError = c.error,
                                             ![i].caught = c.error,
                                             ![i].nexts = @ + 1]
  /\ UNCHANGED <<emissions, storeVars, dustVars, walletVars>>
  /\ UNCHANGED <<initializedProviders, constructions, connector, deployedCount,
                 lastResolve>>

\* BBoardAPI.deploy / BBoardAPI.join resolves with a handle.
ContractResolves(i) ==
  /\ i \in DOMAIN attempts
  /\ attempts[i].pc = "awaitContract"
  /\ IF attempts[i].kind = "deploy"
     THEN /\ Finish(i, TryNexts(DeployedContractAddress), NoError)
          /\ deployedCount' = deployedCount + 1
     ELSE /\ Finish(i, TryNexts(JoinedContractAddress(attempts[i].contractAddress)), NoError)
          /\ UNCHANGED deployedCount
  /\ UNCHANGED <<emissions, storeVars, dustVars, walletVars>>
  /\ UNCHANGED <<initializedProviders, constructions, connector, lastResolve>>

\* BBoardAPI.deploy / BBoardAPI.join rejects with e.
ContractRejects(i, e) ==
  /\ i \in DOMAIN attempts
  /\ attempts[i].pc = "awaitContract"
  /\ Finish(i, CatchNexts(e), e)
  /\ UNCHANGED <<emissions, storeVars, dustVars, walletVars>>
  /\ UNCHANGED <<initializedProviders, constructions, connector, deployedCount,
                 lastResolve>>

(* --------------------------- specification ----------------------------- *)
ResolveArguments == {Undefined, EmptyAddress} \cup OnChain

Next ==
  \/ \E a \in ResolveArguments : Resolve(a)
  \/ \E v \in Versions : Inject(v)
  \/ Tick
  \/ \E p \in 1..MaxEntries : Poll(p)
  \/ \E p \in 1..MaxEntries : DiscoveryTimedOut(p)
  \/ \E p \in 1..MaxEntries : ResponseTimedOut(p)
  \/ \E p \in 1..MaxEntries : ConnectResolves(p)
  \/ \E p \in 1..MaxEntries, e \in Throwables : HandshakeRejects(p, e)
  \/ \E p \in 1..MaxEntries : StatusResolves(p)
  \/ \E p \in 1..MaxEntries : ConfigurationResolves(p)
  \/ \E p \in 1..MaxEntries : AddressesResolve(p)
  \/ \E p \in 1..MaxEntries, e \in Rejections : AssemblyRejects(p, e)
  \/ \E i \in 1..MaxEntries : ProvidersSettled(i)
  \/ \E i \in 1..MaxEntries : ContractResolves(i)
  \/ \E i \in 1..MaxEntries, e \in Rejections : ContractRejects(i, e)

Spec == Init /\ [][Next]_vars

SpecStore == Init /\ [][NextStore]_vars

SpecDust == Init /\ [][NextDust]_vars

SpecWallet == Init /\ [][NextWallet]_vars

(* ---------------------------- properties ------------------------------- *)
\* A resolve call has just returned (a call that repeats the previous call
\* and its result leaves the state as it was).
ResolveReturned == lastResolve' # lastResolve

DeployedAt(deployments, a) ==
  {e \in DOMAIN deployments :
     deployments[e].status = "deployed" /\ deployments[e].address = a}

\* C1: every resolve(address) call made while a tracked entry is deployed
\* with that address returns that entry, appends no entry and starts no join
\* attempt.
C1_ResolveDeployedReturnsThatEntry ==
  [][ResolveReturned =>
       \A e \in DeployedAt(boardDeployments, lastResolve'.arg) :
          /\ lastResolve'.result = e
          /\ boardDeployments' = boardDeployments
          /\ attempts' = attempts]_vars

\* C2: the tracked collection never holds two entries in state deployed with
\* the same contract address.
C2_NoTwoDeployedWithSameAddress ==
  \A i, j \in DOMAIN boardDeployments :
     (/\ i # j
      /\ boardDeployments[i].status = "deployed"
      /\ boardDeployments[j].status = "deployed")
     => boardDeployments[i].address # boardDeployments[j].address

\* C3: initializeProviders (and with it connectToWallet) is called at most
\* once per manager, every attempt awaits that one construction, and all
\* attempts that have observed its outcome observed the same bundle or the
\* same error.  (A construction record is one call of initializeProviders
\* and of connectToWallet; re-subscriptions inside that call are C9/C10.)
C3_OneConstructionSharedOutcome ==
  /\ Len(constructions) <= 1
  /\ \A i \in DOMAIN attempts : attempts[i].promise = initializedProviders
  /\ \A i, j \in DOMAIN attempts :
        (attempts[i].observed # "none" /\ attempts[j].observed # "none")
        => /\ attempts[i].observed = attempts[j].observed
           /\ attempts[i].observedError = attempts[j].observedError
           /\ attempts[i].promise = attempts[j].promise

\* Two attempts asked for the providers before the construction settled, and
\* both have observed its outcome.
C3_Witness ==
  \E i, j \in DOMAIN attempts :
     /\ i # j
     /\ attempts[i].sawPending /\ attempts[j].sawPending
     /\ attempts[i].observed # "none" /\ attempts[j].observed # "none"

\* An entry's state changes only from in-progress to deployed or failed, by
\* a single call of next; an entry that is deployed or failed never changes
\* again.
WriteOnceToTerminal ==
  [][\A i \in DOMAIN boardDeployments :
       /\ Terminal(boardDeployments[i]) =>
            /\ boardDeployments'[i] = boardDeployments[i]
            /\ attempts'[i].nexts = attempts[i].nexts
       /\ boardDeployments'[i] # boardDeployments[i] =>
            /\ boardDeployments[i].status = "in-progress"
            /\ Terminal(boardDeployments'[i])
       /\ attempts'[i].nexts = IF Terminal(boardDeployments'[i]) THEN 1 ELSE 0]_vars

\* C4: every tracked entry makes exactly one state transition, from
\* in-progress to deployed or to failed: its subject receives one call of
\* next, no more (an entry that is deployed or failed never changes again)
\* and no fewer (the call takes place).
C4_ExactlyOneTransition ==
  /\ WriteOnceToTerminal
  /\ \A i \in 1..MaxEntries :
        [](i \in DOMAIN attempts
             => <>(i \in DOMAIN attempts /\ attempts[i].nexts = 1))

\* C5: every resolve call without an address (undefined, and likewise the
\* empty string) appends a new in-progress entry, returns it, and starts a
\* deploy attempt for it, leaving the existing entries as they are.
C5_ResolveWithoutAddressCreates ==
  [][(ResolveReturned /\ ~Truthy(lastResolve'.arg)) =>
       LET n == Len(boardDeployments) + 1
       IN /\ lastResolve'.created
          /\ lastResolve'.result = n
          /\ boardDeployments' = Append(boardDeployments, InProgress)
          /\ Len(attempts') = n
          /\ attempts'[n].kind = "deploy"
          /\ attempts'[n].pc = "awaitProviders"
          /\ \A i \in DOMAIN attempts : attempts'[i] = attempts[i]]_vars

\* resolve() has just created the third entry while a deployed and a failed
\* entry were already tracked.
C5_Witness ==
  /\ lastResolve.arg = Undefined /\ lastResolve.result = 3 /\ lastResolve.created
  /\ Len(boardDeployments) = 3
  /\ \E i, j \in 1..2 : /\ boardDeployments[i].status = "deployed"
                        /\ boardDeployments[j].status = "failed"
  /\ boardDeployments[3].status = "in-progress"
  /\ attempts[3].kind = "deploy" /\ attempts[3].pc = "awaitProviders"

\* C6: when the first connector found by polling advertises a version
\* outside 4.x, connectToWallet rejects with the incompatibility error that
\* quotes the required range and the actual version, and connect is never
\* called.
C6_IncompatibleVersionError ==
  \A p \in DOMAIN constructions :
     LET c == constructions[p]
     IN (c.found # NoVersion /\ ~Satisfies(c.found, COMPATIBLE_CONNECTOR_API_VERSION))
        => /\ c.phase = "rejected"
           /\ c.walletError = IncompatibleError(c.found)
           /\ c.walletError.required = COMPATIBLE_CONNECTOR_API_VERSION
           /\ c.walletError.actual = c.found
           /\ c.connectCalls = 0

\* C7: when no connector appeared within the 1000 ms discovery window,
\* connectToWallet rejects with the not-found error, which differs from the
\* other three errors, and connect is never called.
C7_DiscoveryTimeoutError ==
  \A p \in DOMAIN constructions :
     LET c == constructions[p]
     IN (c.phase = "rejected" /\ c.failedIn = "polling" /\ c.found = NoVersion)
        => /\ c.walletError = NotFoundError
           /\ c.walletError \notin {NotRespondingError, NotAuthorizedError}
           /\ c.connectCalls = 0

\* C8: when a compatible connector was found and connect resolved but the
\* status query did not resolve before the 5000 ms timer fired,
\* connectToWallet rejects with the not-responding error, which differs from
\* the other three errors.
C8_NotRespondingError ==
  \A p \in DOMAIN constructions :
     LET c == constructions[p]
     IN (c.phase = "rejected" /\ c.failedIn = "status" /\ c.raised = NotRespondingError)
        => /\ c.walletError = NotRespondingError
           /\ c.walletError \notin {NotFoundError, NotAuthorizedError}

\* C9: whenever connect or the status query has rejected, with any thrown
\* value, connectToWallet has rejected with 'Application is not authorized'.
C9_HandshakeErrorIsNotAuthorized ==
  \A p \in DOMAIN constructions :
     LET c == constructions[p]
     IN (c.failedIn \in {"connecting", "status"} /\ c.raised \in Throwables)
        => /\ c.phase = "rejected"
           /\ c.walletError = NotAuthorizedError
           /\ c.walletError # c.raised

\* C10: over the life of the manager the connector's connect operation is
\* called at most once.
C10_ConnectAtMostOnce ==
  /\ Len(constructions) <= 1
  /\ \A p \in DOMAIN constructions : constructions[p].connectCalls <= 1

\* The construction the cache holds has rejected.
ConstructionFailed ==
  /\ initializedProviders # NoPromise
  /\ constructions[initializedProviders].phase = "rejected"

EntryFailed(i) ==
  i \in DOMAIN boardDeployments /\ boardDeployments[i].status = "failed"

\* C11 as stated: once the cached construction has rejected, no second
\* construction exists, no attempt calls deploy or join, and every entry
\* whose attempt has finished is failed with that same rejection value.
C11_FailedConstructionSameError ==
  ConstructionFailed =>
    /\ Len(constructions) = 1
    /\ \A i \in DOMAIN attempts :
          /\ attempts[i].promise = initializedProviders
          /\ attempts[i].pc \in {"awaitProviders", "done"}
          /\ attempts[i].pc = "done" =>
               boardDeployments[i] = Failed(constructions[initializedProviders].error)

\* C11 amended: as above, with the entry carrying the rejection value coerced
\* to an Error; the rejected construction is never touched again (no new
\* negotiation), and the continuation of every attempt, also of entries
\* created later, is ready to run and takes its entry to failed.
C11_FailedConstructionCached ==
  /\ [](ConstructionFailed =>
          /\ Len(constructions) = 1
          /\ \A i \in DOMAIN attempts :
                /\ attempts[i].promise = initializedProviders
                /\ attempts[i].pc \in {"awaitProviders", "done"}
                /\ boardDeployments[i].status # "deployed"
                /\ attempts[i].pc = "awaitProviders" => ENABLED ProvidersSettled(i)
                /\ attempts[i].pc = "done" =>
                     boardDeployments[i] =
                       Failed(CoerceError(constructions[initializedProviders].error)))
  /\ [][ConstructionFailed =>
          /\ constructions' = constructions
          /\ initializedProviders' = initializedProviders
          /\ \A i \in DOMAIN attempts :
                attempts'[i].pc # attempts[i].pc
                  => ProvidersSettled(i) /\ EntryFailed(i)']_vars

\* A construction rejected by getConfiguration/getShieldedAddresses with a
\* non-Error value; an entry that awaited it and an entry created after the
\* rejection are both failed.
C11_Witness ==
  /\ ConstructionFailed
  /\ ~constructions[initializedProviders].error.isError
  /\ \E i, j \in DOMAIN attempts :
        /\ attempts[i].sawPending /\ ~attempts[j].sawPending
        /\ boardDeployments[i].status = "failed"
        /\ boardDeployments[j].status = "failed"

\* An attempt of entry i has just failed.
FailureOf(i) ==
  /\ i \in DOMAIN boardDeployments
  /\ boardDeployments[i].status = "in-progress"
  /\ boardDeployments'[i].status = "failed"

\* C12: a failure of one entry's attempt changes only that entry: it becomes
\* failed with the caught value coerced to an Error, every other entry, the
\* collection and the result of resolve stay as they are; and every resolve
\* call returns an entry.
C12_FailureIsCapturedInEntry ==
  [][/\ \A i \in 1..MaxEntries :
          FailureOf(i) =>
            /\ boardDeployments'[i].error.isError
            /\ boardDeployments'[i].error.msg = attempts'[i].caught.msg
            /\ attempts'[i].caught.isError =>
                 boardDeployments'[i].error = attempts'[i].caught
            /\ Len(boardDeployments') = Len(boardDeployments)
            /\ \A j \in DOMAIN boardDeployments :
                  j # i => /\ boardDeployments'[j] = boardDeployments[j]
                           /\ attempts'[j] = attempts[j]
            /\ lastResolve' = lastResolve
     /\ ResolveReturned => lastResolve'.result \in DOMAIN boardDeployments']_vars

\* One entry failed on a non-Error value thrown by deploy/join while another
\* entry is deployed and a third is still in progress.
C12_Witness ==
  \E i, j, k \in DOMAIN boardDeployments :
     /\ boardDeployments[i].status = "failed"
     /\ attempts[i].observed = "fulfilled"
     /\ ~attempts[i].caught.isError
     /\ boardDeployments[j].status = "deployed"
     /\ boardDeployments[k].status = "in-progress"

\* Entry i has just been created by resolve.
Created(i) ==
  /\ ResolveReturned
  /\ lastResolve'.created
  /\ lastResolve'.result = i

\* C14: boardDeployments$ emits the empty list first and then one list per
\* created entry, the previous list with the new entry appended; a resolve
\* that returns an existing entry and a state change of an entry emit nothing.
C14_OneEmissionPerNewEntry ==
  /\ [](/\ emissions[1] = <<>>
        /\ Len(emissions) = Len(boardDeployments) + 1
        /\ \A n \in 2..Len(emissions) :
              emissions[n] = Append(emissions[n - 1], n - 1))
  /\ [][/\ emissions' # emissions =>
             /\ \E i \in 1..MaxEntries : Created(i) /\ i \notin DOMAIN boardDeployments
             /\ emissions' = Append(emissions, emissions'[Len(emissions')])
        /\ (ResolveReturned /\ ~lastResolve'.created) => emissions' = emissions
        /\ (\E i \in DOMAIN boardDeployments :
               boardDeployments'[i] # boardDeployments[i]) => emissions' = emissions
       ]_vars

\* Three entries were created, one has changed state, and the last resolve
\* returned an existing entry.
C14_Witness ==
  /\ Len(emissions) = 4
  /\ lastResolve.result # 0 /\ ~lastResolve.created
  /\ \E i \in DOMAIN boardDeployments : boardDeployments[i].status = "failed"

\* C18: a created entry is in-progress when the list containing it is emitted
\* and when resolve returns, whatever the state of the cached construction;
\* an entry becomes terminal only in a later step, which is not a resolve.
C18_NewEntryInProgressAtReturn ==
  [][\A i \in 1..MaxEntries :
        /\ Created(i) =>
             /\ lastResolve'.atEmission = InProgress
             /\ boardDeployments'[i] = InProgress
             /\ attempts'[i].nexts = 0
             /\ emissions'[Len(emissions')][Len(emissions'[Len(emissions')])] = i
        /\ (i \in DOMAIN boardDeployments' /\ Terminal(boardDeployments'[i])
            /\ ~(i \in DOMAIN boardDeployments /\ Terminal(boardDeployments[i])))
             => /\ i \in DOMAIN boardDeployments
                /\ lastResolve' = lastResolve]_vars

\* Resolve has just created an entry while the cached construction was already
\* settled; the entry is there and in progress.
C18_Witness ==
  /\ lastResolve.created
  /\ \E i \in DOMAIN attempts : \E j \in DOMAIN attempts :
        /\ lastResolve.result = i
        /\ ~attempts[i].sawPending
        /\ constructions[attempts[i].promise].phase = "fulfilled"
        /\ attempts[i].pc = "awaitProviders"
        /\ ~attempts[j].sawPending /\ boardDeployments[j].status = "deployed"

\* C19: the tracked collection is append-only: every entry resolve has ever
\* returned is in it, entries keep their positions, and its length never
\* decreases.
C19_TrackedCollectionAppendOnly ==
  /\ [](/\ \A i \in DOMAIN boardDeployments : \E k \in DOMAIN Tracked : Tracked[k] = i
        /\ lastResolve.result # 0 =>
             \E k \in DOMAIN Tracked : Tracked[k] = lastResolve.result)
  /\ [][/\ Len(Tracked') >= Len(Tracked)
        /\ \A k \in DOMAIN Tracked : Tracked'[k] = Tracked[k]]_vars

\* Resolve returned the first entry again after two more entries were
\* appended and attempts have finished in between.
C19_Witness ==
  /\ Len(Tracked) = 3
  /\ lastResolve.result = 1 /\ ~lastResolve.created
  /\ \E i \in DOMAIN boardDeployments : boardDeployments[i].status = "failed"

\* generateDust was called with no coin left to register.
NothingToRegister == dustPc # "idle" /\ Len(Utxos(availableCoins)) = 0

\* C15: generateDust called with no unregistered coin creates no
\* registration transaction, submits nothing and returns without error,
\* whatever the seed (a failure reported by the wallet itself set aside).
C15_NothingToRegisterReturns ==
  NothingToRegister =>
    /\ dustCalls.createDustGenerationTransaction = 0
    /\ dustCalls.submitTransaction = 0
    /\ dustOutcome.error \in {NoError, WalletError}

\* C16: a recipe of any type but 'TransactionToProve' makes generateDust fail
\* at once with the recipe error; finalizeTransaction and submitTransaction
\* are not called.
C16_UnexpectedRecipeFails ==
  (recipe # Undefined /\ recipe # "TransactionToProve") =>
    /\ dustPc = "rejected"
    /\ dustOutcome = [settled |-> "rejected", value |-> Undefined,
                      error |-> UnexpectedRecipeError]
    /\ dustCalls.finalizeTransaction = 0
    /\ dustCalls.submitTransaction = 0

\* addDustGenerationSignature resolved to a recipe of another type.
C16_Witness ==
  /\ recipe = "NothingToProve"
  /\ dustCalls.addDustGenerationSignature = 1
  /\ dustOutcome.settled = "rejected"

\* The value of the most recent set of key in h that no later remove of key
\* and no later clear follows; Null when there is none.
RECURSIVE MostRecentSet(_, _, _)
MostRecentSet(h, ops, key) ==
  IF h = <<>> THEN Null
  ELSE LET e == h[Len(h)]
       IN IF e.op = ops.set /\ e.key = key THEN e.value
          ELSE IF (e.op = ops.remove /\ e.key = key) \/ e.op = ops.clear THEN Null
          ELSE MostRecentSet(SubSeq(h, 1, Len(h) - 1), ops, key)

StateOps == [set |-> "set", remove |-> "remove", clear |-> "clear"]
KeyOps == [set |-> "setSigningKey", remove |-> "removeSigningKey",
           clear |-> "clearSigningKeys"]

\* C17: get(k) resolves to the value of the most recent set(k) not followed
\* by remove(k) or clear, and to null otherwise; getSigningKey(a) likewise
\* with setSigningKey/removeSigningKey/clearSigningKeys.
C17_GetReturnsMostRecentSet ==
  [][lastGet' # lastGet =>
       /\ history' = history
       /\ lastGet'.op = "get" =>
            lastGet'.value = MostRecentSet(history, StateOps, lastGet'.key)
       /\ lastGet'.op = "getSigningKey" =>
            lastGet'.value = MostRecentSet(history, KeyOps, lastGet'.key)]_vars

\* C20: generateDust returns a transaction id only when exactly one
\* submitTransaction call has completed and a wallet state with a positive
\* dust balance was seen after it; while no such state is seen it does not
\* return.
C20_ReturnsAfterSubmitAndPositiveBalance ==
  /\ [](/\ dustCalls.submitTransaction <= 1
        /\ dustOutcome.value # Undefined =>
             /\ dustOutcome.value \in TxIds
             /\ dustOutcome.value = submitted
             /\ dustCalls.submitTransaction = 1
             /\ balances # <<>> /\ balances[Len(balances)] > 0
        /\ (submitted # Undefined /\ \A n \in DOMAIN balances : ~(balances[n] > 0))
             => dustOutcome.settled # "fulfilled")
  /\ [][balances' # balances => /\ submitted # Undefined
                                /\ submitted' = submitted
                                /\ dustCalls.submitTransaction = 1]_vars

\* generateDust returned the transaction id after a wallet state without dust
\* and one with dust.
C20_Witness ==
  /\ dustOutcome.settled = "fulfilled"
  /\ dustOutcome.value \in TxIds
  /\ Len(balances) = 2 /\ balances[1] = 0

\* C21: the two mappings of the store are independent: set, remove and clear
\* leave the signing keys as they are, setSigningKey, removeSigningKey and
\* clearSigningKeys leave the private states as they are, and set(k) and
\* remove(k) leave the entry of every other key as it is.
C21_MappingsAreIndependent ==
  [][history' # history =>
       LET e == history'[Len(history')]
       IN /\ e.op \in {"set", "remove", "clear"} => signingKeys' = signingKeys
          /\ e.op \in {"setSigningKey", "removeSigningKey", "clearSigningKeys"}
               => record' = record
          /\ e.op \in {"set", "remove"} =>
               \A k \in PrivateStateIds \ {e.key} :
                  /\ (k \in DOMAIN record') = (k \in DOMAIN record)
                  /\ MapGet(record', k) = MapGet(record, k)]_vars

\* A private state was removed while another one and a signing key are
\* stored.
C21_Witness ==
  /\ Len(history) = 3
  /\ history[3].op = "remove"
  /\ \E k \in DOMAIN record : k # history[3].key
  /\ signingKeys # EmptyMap

\* C22: connectToWallet settles no later than 5000 after it was called: a
\* negotiation that has not settled is never older than the connect/status
\* timeout.
C22_SettlesWithinResponseTimeout ==
  \A p \in DOMAIN constructions :
     Negotiating(constructions[p]) => constructions[p].age <= ResponseTimeout

\* C23: when wallet.state() has emitted a fully synced state before the sync
\* timeout, syncWallet does not reject with the sync-timeout error.
C23_SyncedStateBeatsTimeout ==
  syncedEmitted => syncOutcome.error # SyncTimeoutError

\* C24: the unshielded state waitForUnshieldedFunds resolves with has a
\* balance greater than zero for the requested token type.
C24_ResolvesWithFunds ==
  fundsOutcome.settled = "fulfilled" =>
    /\ tokenType \in DOMAIN fundsOutcome.balances
    /\ fundsOutcome.balances[tokenType] > 0

(* ------------------------ fair scheduling ------------------------------ *)
\* The event loop runs every due timer and every continuation of a settled
\* promise; the wallet connector and the contract client settle their
\* promises or not as they please.
Fairness ==
  /\ WF_vars(Tick)
  /\ \A p \in 1..MaxEntries :
        /\ WF_vars(Poll(p))
        /\ WF_vars(DiscoveryTimedOut(p))
        /\ WF_vars(ResponseTimedOut(p))
  /\ \A i \in 1..MaxEntries : WF_vars(ProvidersSettled(i))

FairSpec == Spec /\ Fairness

\* C13: under fair scheduling of timers and continuations every entry
\* eventually leaves in-progress, whatever the wallet connector and the
\* contract client do.
C13_EveryEntryEventuallyTerminal ==
  \A i \in 1..MaxEntries :
     [](i \in DOMAIN boardDeployments
          => <>(i \in DOMAIN boardDeployments /\ Terminal(boardDeployments[i])))

====
